---- MODULE Spec2Model ----
(***************************************************************************)
(* Model of the resume analyzer backend (src/main.py): the keyword scorer  *)
(* analyze_resume, the text normalisation of extract_text_from_pdf, the    *)
(* resumedata table behind the SQLModel session, the files under uploads/  *)
(* and the five HTTP handlers.  Texts, filenames and column values are     *)
(* character strings; the substring tests, join/split encodings and the    *)
(* floating point score are computed on them as the Python code does.      *)
(***************************************************************************)
EXTENDS Integers, Sequences, FiniteSets, TLC

VARIABLES
    table,      \* the resumedata table: primary key id -> row
    disk,       \* the files under uploads/: filename -> content
    inflight,   \* upload requests suspended at "await file.read()"
    resp,       \* the response to the request completed last
    issued,     \* history: the ids some upload has been given so far
    returned,   \* history: id -> what the upload that created the row answered
    text,       \* the scorer's input when it is run on its own
    result      \* the scorer's output when it is run on its own

vars == <<table, disk, inflight, resp, issued, returned, text, result>>

(***************************************************************************)
(* Python str operations used by the code.                                 *)
(***************************************************************************)

\* Python: pat in s
Contains(s, pat) ==
    \E i \in 1..(Len(s) - Len(pat) + 1) : SubSeq(s, i, i + Len(pat) - 1) = pat

\* Python: s.endswith(suf)
EndsWith(s, suf) ==
    /\ Len(s) >= Len(suf)
    /\ SubSeq(s, Len(s) - Len(suf) + 1, Len(s)) = suf

UpperAlphabet == "ABCDEFGHIJKLMNOPQRSTUVWXYZ"

LowerAlphabet == "abcdefghijklmnopqrstuvwxyz"

\* each upper-case letter's lower-case letter
LowerOf ==
    LET at(c) == CHOOSE i \in 1..Len(UpperAlphabet) : SubSeq(UpperAlphabet, i, i) = c
    IN  [c \in {SubSeq(UpperAlphabet, i, i) : i \in 1..Len(UpperAlphabet)} |->
            SubSeq(LowerAlphabet, at(c), at(c))]

LowerChar(c) == IF c \in DOMAIN LowerOf THEN LowerOf[c] ELSE c

\* Python: s.lower(), character by character
RECURSIVE Lower(_)
Lower(s) ==
    IF Len(s) = 0 THEN ""
    ELSE IF Len(s) = 1 THEN LowerChar(s)
    ELSE LET h == Len(s) \div 2
         IN  Lower(SubSeq(s, 1, h)) \o Lower(SubSeq(s, h + 1, Len(s)))

\* Python: sep.join(items)
RECURSIVE Join(_, _)
Join(sep, items) ==
    IF Len(items) = 0 THEN ""
    ELSE IF Len(items) = 1 THEN items[1]
    ELSE items[1] \o sep \o Join(sep, Tail(items))

\* index of the first occurrence of sep in s, 0 when there is none
FindFirst(s, sep) ==
    LET hits == {i \in 1..(Len(s) - Len(sep) + 1) : SubSeq(s, i, i + Len(sep) - 1) = sep}
    IN  IF hits = {} THEN 0 ELSE CHOOSE i \in hits : \A j \in hits : i <= j

\* Python: s.split(sep)
RECURSIVE Split(_, _)
Split(s, sep) ==
    LET i == FindFirst(s, sep)
    IN  IF i = 0 THEN <<s>>
        ELSE <<SubSeq(s, 1, i - 1)>> \o Split(SubSeq(s, i + Len(sep), Len(s)), sep)

IsSpace(c) == c \in {" ", "\n", "\t"}

\* Python: len(s.split()), the number of maximal runs of non-blank characters
WordCount(s) ==
    Cardinality({i \in 1..Len(s) :
                    /\ ~IsSpace(SubSeq(s, i, i))
                    /\ (i = 1 \/ IsSpace(SubSeq(s, i - 1, i - 1)))})

Digits == "0123456789"

\* Python: f"{n}" of a non-negative int
RECURSIVE IntToStr(_)
IntToStr(n) ==
    IF n < 10 THEN SubSeq(Digits, n + 1, n + 1)
    ELSE IntToStr(n \div 10) \o SubSeq(Digits, (n % 10) + 1, (n % 10) + 1)

(***************************************************************************)
(* IEEE-754 binary64 arithmetic, as far as the score needs it: a positive  *)
(* double is [m, e] with m its 53 significand bits (most significant       *)
(* first) and value m * 2^e.  Division and multiplication round to nearest,*)
(* ties to even; int() truncates.                                          *)
(***************************************************************************)
MantissaBits == 53

LimbBits == 20

Zeros(k) == [i \in 1..k |-> 0]

StripZeros(bits) ==
    LET ones == {i \in 1..Len(bits) : bits[i] = 1}
    IN  IF ones = {} THEN <<>>
        ELSE SubSeq(bits, CHOOSE i \in ones : \A j \in ones : i <= j, Len(bits))

\* bits + 1 on a most-significant-first bit string
IncBits(bits) ==
    LET n     == Len(bits)
        zeros == {i \in 1..n : bits[i] = 0}
    IN  IF zeros = {} THEN <<1>> \o Zeros(n)
        ELSE LET p == CHOOSE i \in zeros : \A j \in zeros : j <= i
             IN  [i \in 1..n |-> IF i < p THEN bits[i] ELSE IF i = p THEN 1 ELSE 0]

\* the exact value bits * 2^e (plus a non-zero tail when sticky) rounded to a double
RoundToDouble(bits, e, sticky) ==
    LET b    == StripZeros(bits)
        n    == Len(b)
        keep == SubSeq(b, 1, MantissaBits)
        rest == SubSeq(b, MantissaBits + 1, n)
        rnd  == rest # <<>> /\ rest[1] = 1
        more == sticky \/ \E i \in 2..Len(rest) : rest[i] = 1
        up   == rnd /\ (more \/ keep[MantissaBits] = 1)
        inc  == IncBits(keep)
    IN  IF n <= MantissaBits
        THEN [m |-> b \o Zeros(MantissaBits - n), e |-> e - (MantissaBits - n)]
        ELSE IF ~up THEN [m |-> keep, e |-> e + (n - MantissaBits)]
        ELSE IF Len(inc) = MantissaBits THEN [m |-> inc, e |-> e + (n - MantissaBits)]
        ELSE [m |-> SubSeq(inc, 1, MantissaBits), e |-> e + (n - MantissaBits) + 1]

\* 2^i mod b
RECURSIVE Pow2Mod(_, _)
Pow2Mod(i, b) ==
    IF i <= LimbBits THEN (2 ^ i) % b
    ELSE (Pow2Mod(i - LimbBits, b) * ((2 ^ LimbBits) % b)) % b

\* the remainder left after i bits of the binary fraction a / b (0 < a < b)
FracRem(a, b, i) == (a * Pow2Mod(i, b)) % b

\* the first k bits of the binary fraction a / b
FracBits(a, b, k) == [i \in 1..k |-> (2 * FracRem(a, b, i - 1)) \div b]

\* Python: a / b for ints 0 < a <= b
FloatDiv(a, b) ==
    IF a = b THEN RoundToDouble(<<1>>, 0, FALSE)
    ELSE LET k == 2 * MantissaBits
         IN  RoundToDouble(FracBits(a, b, k), 0 - k, FracRem(a, b, k) # 0)

\* the value of bits lo..hi of a least-significant-first numbering of bits
RECURSIVE LimbValue(_, _, _)
LimbValue(bits, lo, hi) ==
    IF lo > hi THEN 0
    ELSE (IF lo < Len(bits) THEN bits[Len(bits) - lo] ELSE 0)
         + 2 * LimbValue(bits, lo + 1, hi)

\* a bit string as base 2^LimbBits digits, least significant first
ToLimbs(bits) ==
    [t \in 1..((Len(bits) + LimbBits - 1) \div LimbBits) |->
        LimbValue(bits, LimbBits * (t - 1), LimbBits * t - 1)]

FromLimbs(limbs) ==
    LET n == LimbBits * Len(limbs)
    IN  [p \in 1..n |-> (limbs[((n - p) \div LimbBits) + 1] \div (2 ^ ((n - p) % LimbBits))) % 2]

\* limbs * k + carry
RECURSIVE MulLimbs(_, _, _)
MulLimbs(limbs, k, carry) ==
    IF limbs = <<>> THEN IF carry = 0 THEN <<>> ELSE <<carry>>
    ELSE LET t == Head(limbs) * k + carry
         IN  <<t % (2 ^ LimbBits)>> \o MulLimbs(Tail(limbs), k, t \div (2 ^ LimbBits))

\* Python: x * k for a double x and a small positive int k
FloatMul(x, k) == RoundToDouble(FromLimbs(MulLimbs(ToLimbs(x.m), k, 0)), x.e, FALSE)

RECURSIVE BitsToInt(_)
BitsToInt(bits) ==
    IF Len(bits) = 0 THEN 0
    ELSE 2 * BitsToInt(SubSeq(bits, 1, Len(bits) - 1)) + bits[Len(bits)]

\* Python: int(x) for a positive double below 2^31
FloatToInt(x) ==
    IF x.e >= 0 THEN BitsToInt(x.m \o Zeros(x.e))
    ELSE IF MantissaBits + x.e <= 0 THEN 0
    ELSE BitsToInt(SubSeq(x.m, 1, MantissaBits + x.e))

\* Python: int((a / b) * 100) for ints 0 <= a <= b, 0 < b
PercentOf(a, b) == IF a = 0 THEN 0 ELSE FloatToInt(FloatMul(FloatDiv(a, b), 100))

(***************************************************************************)
(* The scorer.                                                             *)
(***************************************************************************)
REQUIRED_SKILLS ==
    << "python", "java", "c++", "machine learning", "fastapi", "sql",
       "data structures", "algorithms", "git", "api", "html", "css", "javascript" >>

\* a slip: the skill looked up among the words of the text, skill in text.split()
FoundSkillsByWord(t) ==
    LET words == Split(t, " ")
    IN  SelectSeq(REQUIRED_SKILLS, LAMBDA skill : \E i \in 1..Len(words) : words[i] = skill)

\* [skill for skill in REQUIRED_SKILLS if skill in text]
FoundSkills(t) == SelectSeq(REQUIRED_SKILLS, LAMBDA skill : Contains(t, skill))

\* [skill for skill in REQUIRED_SKILLS if skill not in text]
MissingSkills(t) == SelectSeq(REQUIRED_SKILLS, LAMBDA skill : ~Contains(t, skill))

\* int((n / len(REQUIRED_SKILLS)) * 100) for each possible number n of found skills
PercentOfSkills ==
    [n \in 0..Len(REQUIRED_SKILLS) |-> PercentOf(n, Len(REQUIRED_SKILLS))]

\* a slip: round() in place of int()
ScoreRounded(found) ==
    (2 * 100 * Len(found) + Len(REQUIRED_SKILLS)) \div (2 * Len(REQUIRED_SKILLS))

\* int((len(found_skills) / len(REQUIRED_SKILLS)) * 100)
Score(found) == PercentOfSkills[Len(found)]

SuggestSkills == "Add more technical skills relevant to your field."

SuggestProject == "Include at least one project section."

SuggestExperience == "Add an experience section even for internships."

\* a slip: if / elif / elif, so that at most one suggestion is given
SuggestionsElif(t, score) ==
    IF score < 60 THEN <<SuggestSkills>>
    ELSE IF ~Contains(t, "project") THEN <<SuggestProject>>
    ELSE IF ~Contains(t, "experience") THEN <<SuggestExperience>>
    ELSE <<>>

\* the three independent if statements, each appending to the list
Suggestions(t, score) ==
    (IF score < 60 THEN <<SuggestSkills>> ELSE <<>>)
    \o (IF ~Contains(t, "project") THEN <<SuggestProject>> ELSE <<>>)
    \o (IF ~Contains(t, "experience") THEN <<SuggestExperience>> ELSE <<>>)

analyze_resume(t) ==
    LET found_skills   == FoundSkills(t)
        missing_skills == MissingSkills(t)
        score          == Score(found_skills)
    IN  [ skills_found   |-> found_skills,
          skills_missing |-> missing_skills,
          resume_score   |-> IntToStr(score) \o "%",
          suggestions    |-> Suggestions(t, score) ]

(***************************************************************************)
(* Uploaded files.  A file's content is a sequence of blocks; the blocks   *)
(* of a well-formed PDF are its pages.  NotPdf is a body fitz cannot open. *)
(***************************************************************************)
Documents ==
    [ Long   |-> [ valid |-> TRUE,
                   pages |-> << "Python Java C++ SQL Git FastAPI HTML CSS\n",
                                "Projects: machine learning\nExperience: intern" >> ],
      Short  |-> [ valid |-> TRUE,
                   pages |-> << "Curriculum Vitae\nReferences on request" >> ],
      NotPdf |-> [ valid |-> FALSE,
                   pages |-> << "PK zip" >> ] ]

DocNames == DOMAIN Documents

Filenames == {"resume.pdf", "resume.docx", "resume.PDF", "pdf"}

\* the bytes of an upload, block by block
Blocks(d) == [k \in 1..Len(Documents[d].pages) |-> [doc |-> d, k |-> k]]

\* f.write(data) on a descriptor at offset 0: bytes beyond the data stay
WriteAtStart(content, data) ==
    data \o SubSeq(content, Len(data) + 1, Len(content))

RECURSIVE PageTexts(_)
PageTexts(content) ==
    IF content = <<>> THEN ""
    ELSE (IF Documents[Head(content).doc].valid
          THEN Documents[Head(content).doc].pages[Head(content).k]
          ELSE "")
         \o PageTexts(Tail(content))

ExtractionFailure == [ok |-> FALSE]

\* extract_text_from_pdf(path): the lower-cased page texts of the file.  fitz.open
\* raises on an empty file and on a file that is no PDF; on a file made of the
\* head of one upload and the tail of another it either raises or returns the
\* text of the pages it recovers.
extract_text_from_pdf(content) ==
    IF \E d \in DocNames : content = Blocks(d)
    THEN IF (CHOOSE d \in DocNames : content = Blocks(d)) \in {d \in DocNames : Documents[d].valid}
         THEN {[ok |-> TRUE, text |-> Lower(PageTexts(content))]}
         ELSE {ExtractionFailure}
    ELSE IF content = <<>> THEN {ExtractionFailure}
    ELSE {ExtractionFailure, [ok |-> TRUE, text |-> Lower(PageTexts(content))]}

(***************************************************************************)
(* The resumedata table.                                                   *)
(***************************************************************************)
MaxId == 2

MaxInflight == 2

Ids == 1..MaxId

Slots == 1..MaxInflight

Max(S) == CHOOSE x \in S : \A y \in S : y <= x

\* INSERT with id NULL into a table whose id is INTEGER PRIMARY KEY without
\* AUTOINCREMENT: SQLite gives one more than the largest id in the table
NextId(t) == IF DOMAIN t = {} THEN 1 ELSE Max(DOMAIN t) + 1

\* ResumeData(filename=..., total_words=..., ...) as committed with its id
ResumeData(id, filename, t, analysis) ==
    [ id             |-> id,
      filename       |-> filename,
      total_words    |-> WordCount(t),
      skills_found   |-> Join(", ", analysis.skills_found),
      skills_missing |-> Join(", ", analysis.skills_missing),
      resume_score   |-> analysis.resume_score,
      suggestions    |-> Join("; ", analysis.suggestions) ]

\* a slip: the column split without the test for the empty string
SplitColumnUnguarded(col, sep) == Split(col, sep)

\* r.col.split(sep) if r.col else []
SplitColumn(col, sep) == IF col # "" THEN Split(col, sep) ELSE <<>>

\* the {id, filename, analysis} object the two GET handlers build from a row
Formatted(r) ==
    [ id       |-> r.id,
      filename |-> r.filename,
      analysis |-> [ skills_found   |-> SplitColumn(r.skills_found, ", "),
                     skills_missing |-> SplitColumn(r.skills_missing, ", "),
                     resume_score   |-> r.resume_score,
                     suggestions    |-> SplitColumn(r.suggestions, "; ") ] ]

RECURSIVE RowsFrom(_, _)
RowsFrom(t, id) ==
    IF id > MaxId THEN <<>>
    ELSE (IF id \in DOMAIN t THEN <<Formatted(t[id])>> ELSE <<>>) \o RowsFrom(t, id + 1)

Idle == [pc |-> "idle"]

NoResult == [skills_found |-> <<>>, skills_missing |-> <<>>,
             resume_score |-> "", suggestions |-> <<>>]

Init ==
    /\ table = <<>>
    /\ disk = <<>>
    /\ inflight = [s \in Slots |-> Idle]
    /\ resp = [op |-> "none", status |-> 0]
    /\ issued = {}
    /\ returned = <<>>
    /\ text = ""
    /\ result = NoResult

(***************************************************************************)
(* The handlers.                                                           *)
(***************************************************************************)

\* a slip: the extension compared without regard to case
IsPdfFilenameAnyCase(filename) == EndsWith(Lower(filename), ".pdf")

\* file.filename.endswith(".pdf")
IsPdfFilename(filename) == EndsWith(filename, ".pdf")

\* GET /
root ==
    /\ resp' = [op |-> "root", status |-> 200]
    /\ UNCHANGED <<table, disk, inflight, issued, returned, text, result>>

\* POST /upload_resume, a filename that does not end in ".pdf"
upload_resume_rejected(filename) ==
    /\ ~IsPdfFilename(filename)
    /\ resp' = [op |-> "upload_resume", filename |-> filename, status |-> 400]
    /\ UNCHANGED <<table, disk, inflight, issued, returned, text, result>>

\* POST /upload_resume up to "await file.read()": the file is opened for
\* writing, which creates or truncates it, and the handler suspends
upload_resume_open(s, filename, body) ==
    /\ IsPdfFilename(filename)
    /\ inflight[s] = Idle
    /\ \A q \in Slots : q < s => inflight[q] # Idle
    /\ NextId(table) + Cardinality({q \in Slots : inflight[q] # Idle}) <= MaxId
    /\ disk' = (filename :> <<>>) @@ disk
    /\ inflight' = [inflight EXCEPT ![s] =
                       [pc |-> "reading", filename |-> filename, body |-> body]]
    /\ UNCHANGED <<table, resp, issued, returned, text, result>>

\* what the resumed handler leaves in its file: its bytes written from offset 0
Written(s) ==
    WriteAtStart(disk[inflight[s].filename], Blocks(inflight[s].body))

\* a slip: the row inserted before the text is extracted
upload_resume_failed_after_insert(s) ==
    /\ inflight[s] # Idle
    /\ ExtractionFailure \in extract_text_from_pdf(Written(s))
    /\ disk' = [disk EXCEPT ![inflight[s].filename] = Written(s)]
    /\ inflight' = [inflight EXCEPT ![s] = Idle]
    /\ table' = (NextId(table) :> ResumeData(NextId(table), inflight[s].filename, "", NoResult))
                 @@ table
    /\ resp' = [op |-> "upload_resume", filename |-> inflight[s].filename,
                status |-> 500]
    /\ UNCHANGED <<issued, returned, text, result>>

\* POST /upload_resume from the write on, when fitz raises: the request fails
upload_resume_failed(s) ==
    /\ inflight[s] # Idle
    /\ ExtractionFailure \in extract_text_from_pdf(Written(s))
    /\ disk' = [disk EXCEPT ![inflight[s].filename] = Written(s)]
    /\ inflight' = [inflight EXCEPT ![s] = Idle]
    /\ resp' = [op |-> "upload_resume", filename |-> inflight[s].filename,
                status |-> 500]
    /\ UNCHANGED <<table, issued, returned, text, result>>

\* POST /upload_resume from the write on: write, extract, analyze, insert, answer.
\* Nothing awaits after the read, so the rest of the handler is one step;
\* session.add, commit and refresh are taken as one transaction.
upload_resume_saved(s) ==
    /\ inflight[s] # Idle
    /\ \E o \in extract_text_from_pdf(Written(s)) :
          /\ o.ok
          /\ LET analysis == analyze_resume(o.text)
                 id       == NextId(table)
                 entry    == ResumeData(id, inflight[s].filename, o.text, analysis)
             IN  /\ table' = (id :> entry) @@ table
                 /\ issued' = issued \cup {id}
                 /\ returned' = (id :> [filename |-> inflight[s].filename,
                                        analysis |-> analysis]) @@ returned
                 /\ resp' = [op |-> "upload_resume", filename |-> inflight[s].filename,
                             status |-> 200, resume_id |-> id, analysis |-> analysis]
    /\ disk' = [disk EXCEPT ![inflight[s].filename] = Written(s)]
    /\ inflight' = [inflight EXCEPT ![s] = Idle]
    /\ UNCHANGED <<text, result>>

\* GET /resumes
get_all_resumes ==
    /\ resp' = [op |-> "get_all_resumes", status |-> 200, body |-> RowsFrom(table, 1)]
    /\ UNCHANGED <<table, disk, inflight, issued, returned, text, result>>

\* GET /resume/{resume_id}
get_resume(resume_id) ==
    /\ resp' = IF resume_id \notin DOMAIN table
               THEN [op |-> "get_resume", id |-> resume_id, status |-> 404]
               ELSE [op |-> "get_resume", id |-> resume_id, status |-> 200,
                     body |-> Formatted(table[resume_id])]
    /\ UNCHANGED <<table, disk, inflight, issued, returned, text, result>>

Without(f, x) == [y \in DOMAIN f \ {x} |-> f[y]]

\* a slip: the row deleted without looking it up first
delete_resume_unchecked(resume_id) ==
    /\ table' = Without(table, resume_id)
    /\ returned' = Without(returned, resume_id)
    /\ resp' = [op |-> "delete_resume", id |-> resume_id, status |-> 200]
    /\ UNCHANGED <<disk, inflight, issued, text, result>>

\* DELETE /resume/{resume_id}
delete_resume(resume_id) ==
    /\ IF resume_id \notin DOMAIN table
       THEN /\ resp' = [op |-> "delete_resume", id |-> resume_id, status |-> 404]
            /\ UNCHANGED <<table, returned>>
       ELSE /\ table' = Without(table, resume_id)
            /\ returned' = Without(returned, resume_id)
            /\ resp' = [op |-> "delete_resume", id |-> resume_id, status |-> 200]
    /\ UNCHANGED <<disk, inflight, issued, text, result>>

\* DELETE /clear_all where session.exec runs the str it is given as SQL
\* (SQLAlchemy 1.4 coerces a str statement to text())
clear_all_resumes_executed ==
    /\ table' = <<>>
    /\ returned' = <<>>
    /\ resp' = [op |-> "clear_all_resumes", status |-> 200]
    /\ UNCHANGED <<disk, inflight, issued, text, result>>

\* DELETE /clear_all where session.exec refuses the str it is given
\* (SQLAlchemy 2 raises ArgumentError: textual SQL must be declared as text())
clear_all_resumes_refused ==
    /\ resp' = [op |-> "clear_all_resumes", status |-> 500]
    /\ UNCHANGED <<table, disk, inflight, issued, returned, text, result>>

Next ==
    \/ root
    \/ \E filename \in Filenames : upload_resume_rejected(filename)
    \/ \E s \in Slots, filename \in Filenames, body \in DocNames :
          upload_resume_open(s, filename, body)
    \/ \E s \in Slots : upload_resume_failed(s)
    \/ \E s \in Slots : upload_resume_saved(s)
    \/ get_all_resumes
    \/ \E resume_id \in Ids : get_resume(resume_id)
    \/ \E resume_id \in Ids : delete_resume(resume_id)
    \/ clear_all_resumes_executed
    \/ clear_all_resumes_refused

Spec == Init /\ [][Next]_vars

(***************************************************************************)
(* The scorer on its own: analyze_resume applied to one normalized text.   *)
(* The texts are the lower-case fragments below, any subset of them in     *)
(* this order, joined by a blank or by nothing (pages are concatenated     *)
(* with no separator, so a word may straddle two fragments).               *)
(***************************************************************************)
Fragments ==
    << "python", "ja", "va", "script", "c++ machine learning", "fast", "api",
       "sql", "data structures algorithms", "git", "html css",
       "project", "experience" >>

RECURSIVE Pick(_, _)
Pick(chosen, i) ==
    IF i > Len(Fragments) THEN <<>>
    ELSE (IF i \in chosen THEN <<Fragments[i]>> ELSE <<>>) \o Pick(chosen, i + 1)

NormalizedTexts ==
    {Join(sep, Pick(chosen, 1)) : chosen \in SUBSET (1..Len(Fragments)), sep \in {" ", ""}}

InitAnalyze ==
    /\ table = <<>>
    /\ disk = <<>>
    /\ inflight = [s \in Slots |-> Idle]
    /\ resp = [op |-> "none", status |-> 0]
    /\ issued = {}
    /\ returned = <<>>
    /\ text \in NormalizedTexts
    /\ result = NoResult

Analyze ==
    /\ result = NoResult
    /\ result' = analyze_resume(text)
    /\ UNCHANGED <<table, disk, inflight, resp, issued, returned, text>>

SpecAnalyze == InitAnalyze /\ [][Analyze]_vars

(***************************************************************************)
(* Properties.                                                             *)
(***************************************************************************)
AsSet(seq) == {seq[i] : i \in 1..Len(seq)}

NoDuplicates(seq) == \A i, j \in 1..Len(seq) : seq[i] = seq[j] => i = j

\* floor(100 * n / 13) in integer arithmetic
FloorPercent(n) == (100 * n) \div 13

\* the decimal numeral of n (0 <= n <= 999), written digit by digit
Numeral(n) ==
    LET d(k) == SubSeq("0123456789", k + 1, k + 1)
    IN  IF n < 10 THEN d(n)
        ELSE IF n < 100 THEN d(n \div 10) \o d(n % 10)
        ELSE d(n \div 100) \o d((n \div 10) % 10) \o d(n % 10)

LastFour(s) == IF Len(s) < 4 THEN s ELSE SubSeq(s, Len(s) - 3, Len(s))

\* the step in which the suspended upload in slot s runs to its answer
Finishes(s) == inflight[s] # Idle /\ inflight'[s] = Idle

\* C1: in every reachable state of the store, the skillsFound and skillsMissing
\* lists of every persisted record, as the store gives them back, are disjoint,
\* hold no duplicates, and together are the 13 skills of the fixed list.
C1_SkillsPartition ==
    \A id \in DOMAIN table :
        LET a == Formatted(table[id]).analysis
        IN  /\ AsSet(a.skills_found) \cap AsSet(a.skills_missing) = {}
            /\ NoDuplicates(a.skills_found)
            /\ NoDuplicates(a.skills_missing)
            /\ AsSet(a.skills_found) \cup AsSet(a.skills_missing) = AsSet(REQUIRED_SKILLS)
            /\ Len(a.skills_found) + Len(a.skills_missing) = 13

\* C1 happens: after a deletion, a record remains whose text held some of the
\* skills, a two-word skill among them, and lacked others.
C1_Witness ==
    /\ resp.op = "delete_resume"
    /\ resp.status = 200
    /\ \E id \in DOMAIN table :
          /\ "machine learning" \in AsSet(Formatted(table[id]).analysis.skills_found)
          /\ Formatted(table[id]).analysis.skills_missing # <<>>

\* C2: the id an upload is given is strictly greater than every id given to an
\* earlier upload, whatever was deleted or cleared in between.
C2_IdsIncrease ==
    [][\A s \in Slots :
          (Finishes(s) /\ resp'.status = 200)
              => \A earlier \in issued : resp'.resume_id > earlier]_vars

\* C3: for every normalized text the score is floor(100 * |skillsFound| / 13),
\* and resume_score is that integer's numeral followed by "%"; 6 found give 46,
\* 3 found give 23, 13 found give 100.
C3_ScoreIsFloor ==
    result # NoResult =>
        LET n == Len(result.skills_found)
        IN  /\ Score(result.skills_found) = FloorPercent(n)
            /\ result.resume_score = Numeral(FloorPercent(n)) \o "%"
            /\ (n = 6 => result.resume_score = "46%")
            /\ (n = 3 => result.resume_score = "23%")
            /\ (n = 13 => result.resume_score = "100%")

\* C3 happens: a text with 7 of the 13 skills has been scored.
C3_Witness ==
    /\ result # NoResult
    /\ Len(result.skills_found) = 7
    /\ result.resume_score = "53%"

\* C4: the suggestions are exactly those of the three fixed messages, in their
\* fixed order, whose condition holds: score < 60, no "project" in the text, no
\* "experience" in the text; with both words and a score of 60 or more, none.
C4_SuggestionsIndependent ==
    result # NoResult =>
        LET low     == FloorPercent(Len(result.skills_found)) < 60
            project == \E i \in 1..(Len(text) - 6) : SubSeq(text, i, i + 6) = "project"
            exper   == \E i \in 1..(Len(text) - 9) : SubSeq(text, i, i + 9) = "experience"
        IN  /\ result.suggestions =
                  (IF low THEN <<"Add more technical skills relevant to your field.">>
                   ELSE <<>>)
                  \o (IF ~project THEN <<"Include at least one project section.">>
                      ELSE <<>>)
                  \o (IF ~exper THEN <<"Add an experience section even for internships.">>
                      ELSE <<>>)
            /\ (project /\ exper /\ ~low => result.suggestions = <<>>)

\* C4 happens: a text with both words and 8 of the 13 skills (61%) has been
\* scored, and got no suggestion.
C4_Witness ==
    /\ result # NoResult
    /\ Len(result.skills_found) = 8
    /\ result.suggestions = <<>>

\* C5: an upload whose filename does not end in ".pdf" is never taken up; it is
\* answered 400 and the table is after the request what it was before.
C5_NonPdfRejected ==
    [][\A filename \in Filenames :
          LastFour(filename) # ".pdf" =>
              /\ \A s \in Slots, body \in DocNames : ~upload_resume_open(s, filename, body)
              /\ \A s \in Slots : inflight'[s] # Idle => inflight'[s].filename # filename
              /\ upload_resume_rejected(filename) => (resp'.status = 400 /\ table' = table)
              /\ (resp'.op = "upload_resume" /\ resp'.filename = filename)
                     => (resp'.status = 400 /\ (resp' # resp => table' = table))]_vars

\* C5 happens: "resume.PDF" has been refused while the table held a record.
C5_Witness ==
    /\ resp.op = "upload_resume"
    /\ resp.filename = "resume.PDF"
    /\ resp.status = 400
    /\ table # <<>>

\* C6: deleting an id that is not in the table answers 404 and leaves every
\* record as it was.
C6_DeleteMissing ==
    [][\A resume_id \in Ids :
          (resume_id \notin DOMAIN table /\ delete_resume(resume_id))
              => (resp'.status = 404 /\ table' = table)]_vars

\* C6 happens: a deletion has been answered 404 while the table held a record.
C6_Witness ==
    /\ resp.op = "delete_resume"
    /\ resp.status = 404
    /\ table # <<>>

\* C7: DELETE /clear_all always succeeds and leaves the table empty.
C7_ClearAllSucceeds ==
    resp.op = "clear_all_resumes" => (resp.status = 200 /\ table = <<>>)

\* C8: a record is created only by the step that completes an upload, after
\* extraction and analysis; that step either answers success and adds exactly one
\* record, which holds the analysis it answers, or answers failure and leaves
\* the table as it was; a refused upload leaves the table as it was.
C8_NoPartialUpload ==
    [][/\ \A filename \in Filenames : upload_resume_rejected(filename) => table' = table
       /\ (\A s \in Slots : ~Finishes(s)) => DOMAIN table' \subseteq DOMAIN table
       /\ \A s \in Slots :
             Finishes(s) =>
                 /\ resp'.op = "upload_resume"
                 /\ resp'.status # 200 => table' = table
                 /\ resp'.status = 200 =>
                        /\ resp'.resume_id \notin DOMAIN table
                        /\ DOMAIN table' = DOMAIN table \cup {resp'.resume_id}
                        /\ \A id \in DOMAIN table : table'[id] = table[id]
                        /\ Formatted(table'[resp'.resume_id]).analysis = resp'.analysis]_vars

\* C8 happens: an upload has failed at extraction while the table held a record.
C8_Witness ==
    /\ resp.op = "upload_resume"
    /\ resp.status = 500
    /\ table # <<>>

\* C9: every record in the table reads back, through GET /resume/{id}, with the
\* filename and the skills_found, skills_missing, resume_score and suggestions
\* that the upload which created it answered, empty lists included.
C9_RoundTrip ==
    /\ DOMAIN returned = DOMAIN table
    /\ \A id \in DOMAIN table :
          /\ Formatted(table[id]).id = id
          /\ Formatted(table[id]).filename = returned[id].filename
          /\ Formatted(table[id]).analysis = returned[id].analysis
    /\ (resp.op = "get_resume" /\ resp.status = 200) =>
          /\ resp.body.filename = returned[resp.id].filename
          /\ resp.body.analysis = returned[resp.id].analysis

\* C9 happens: a record without any skill and one without any suggestion are in
\* the table, and the first has been read back after the second was created.
C9_Witness ==
    /\ resp.op = "get_resume"
    /\ resp.status = 200
    /\ resp.body.analysis.skills_found = <<>>
    /\ \E id \in DOMAIN table :
          /\ id > resp.id
          /\ returned[id].analysis.suggestions = <<>>

\* C10: whatever the interleaving of uploads, the file a request extracts its
\* text from holds exactly the bytes that same request submitted.
C10_ExtractsOwnBytes ==
    [][\A s \in Slots :
          Finishes(s) => disk'[inflight[s].filename] = Blocks(inflight[s].body)]_vars

====
